---- MODULE Spec2Model ----
(***************************************************************************)
(* KONG staking dashboard: tier classifier, leaderboard normalisation,     *)
(* aggregation and segmentation (KONG_dashboard_app.py), the daily         *)
(* snapshot recorder (scripts/snapshot_daily.py) and the history loader.   *)
(*                                                                         *)
(* Numbers are integers (whole KONG / whole USD / whole percent); a        *)
(* DataFrame is a sequence of rows; a Python str is a sequence of          *)
(* one-character strings; daily.csv is kept as its data lines, every cell  *)
(* as text, so that writing and reading it back is a real conversion.      *)
(***************************************************************************)
EXTENDS Integers, Sequences, FiniteSets, TLC

VARIABLES out_csv_exists, out_csv, snap, dash, view, tiers

vars == <<out_csv_exists, out_csv, snap, dash, view, tiers>>

(***************************************************************************)
(* Bounds of the model.                                                    *)
(***************************************************************************)
\* longest leaderboard payload that is enumerated
MaxRecs == 2
\* half-width of the window of stake amounts enumerated around each threshold
TierWindow == 12

(***************************************************************************)
(* Python strings and numbers.                                             *)
(***************************************************************************)
DigitChars == <<"0", "1", "2", "3", "4", "5", "6", "7", "8", "9">>

IsDigit(c) == \E i \in 1..10 : DigitChars[i] = c

DigitValue(c) == (CHOOSE i \in 1..10 : DigitChars[i] = c) - 1

\* ord() of the characters that occur in an ISO date
Ord(c) == IF c = "-" THEN 45 ELSE 48 + DigitValue(c)

\* s < t on Python str (lexicographic by code point), for ISO-date strings
RECURSIVE StrLess(_, _)
StrLess(s, t) ==
    IF t = <<>> THEN FALSE
    ELSE IF s = <<>> THEN TRUE
    ELSE IF Head(s) # Head(t) THEN Ord(Head(s)) < Ord(Head(t))
    ELSE StrLess(Tail(s), Tail(t))

RECURSIVE DigitsOf(_)
DigitsOf(n) ==
    IF n < 10 THEN <<DigitChars[n + 1]>>
    ELSE DigitsOf(n \div 10) \o <<DigitChars[(n % 10) + 1]>>

\* str(int) / the text to_csv writes for an int64 cell
FormatInt(n) == IF n < 0 THEN <<"-">> \o DigitsOf(-n) ELSE DigitsOf(n)

\* repr(float) / the text to_csv writes for a float64 cell (integral values)
FormatFloat(n) == FormatInt(n) \o <<".", "0">>

\* zero-padded decimal of width w (date.isoformat)
RECURSIVE Pad(_, _)
Pad(s, w) == IF Len(s) >= w THEN s ELSE Pad(<<"0">> \o s, w)

RECURSIVE DigitsValue(_)
DigitsValue(s) ==
    IF s = <<>> THEN 0
    ELSE DigitsValue(SubSeq(s, 1, Len(s) - 1)) * 10 + DigitValue(s[Len(s)])

AllDigits(s) == s # <<>> /\ \A i \in 1..Len(s) : IsDigit(s[i])

DotAt(s) == IF \E i \in 1..Len(s) : s[i] = "."
            THEN CHOOSE i \in 1..Len(s) : s[i] = "."
            ELSE 0

\* The numeric literals that occur here: [-]digits[.digits].  The result is
\* [ok, v, f]: parsable, the value (fraction digits are all "0" in every
\* text this model writes), and whether it is a float literal.
ParseNumber(text) ==
    LET neg  == text # <<>> /\ Head(text) = "-"
        body == IF neg THEN Tail(text) ELSE text
        dot  == DotAt(body)
        ip   == IF dot = 0 THEN body ELSE SubSeq(body, 1, dot - 1)
        fp   == IF dot = 0 THEN <<>> ELSE SubSeq(body, dot + 1, Len(body))
        ok   == AllDigits(ip) /\ (dot = 0 \/ AllDigits(fp))
    IN  IF ok
        THEN [ok |-> TRUE, v |-> IF neg THEN -DigitsValue(ip) ELSE DigitsValue(ip),
              f |-> dot # 0]
        ELSE [ok |-> FALSE, v |-> 0, f |-> FALSE]

(***************************************************************************)
(* Tier classifier: one copy in the app, one in the snapshot script.       *)
(***************************************************************************)
classify_tier_le(x) ==
    IF x <= 25000 THEN 0
    ELSE IF x <= 62500 THEN 1
    ELSE IF x <= 125000 THEN 2
    ELSE IF x <= 250000 THEN 3
    ELSE 4

classify_tier(x) ==
    IF x < 25000 THEN 0
    ELSE IF x < 62500 THEN 1
    ELSE IF x < 125000 THEN 2
    ELSE IF x < 250000 THEN 3
    ELSE 4

snapshot_classify_tier(x) ==
    IF x < 25000 THEN 0
    ELSE IF x < 62500 THEN 1
    ELSE IF x < 125000 THEN 2
    ELSE IF x < 250000 THEN 3
    ELSE 4

(***************************************************************************)
(* Leaderboard payload.  A raw record is {user, stakedAmount}; the raw     *)
(* stakedAmount is a JSON number, a JSON string, null, or the key is       *)
(* absent.                                                                 *)
(***************************************************************************)
Num(n) == [kind |-> "num", val |-> n, text |-> <<>>]
Str(s) == [kind |-> "str", val |-> 0, text |-> s]
Null == [kind |-> "null", val |-> 0, text |-> <<>>]
Absent == [kind |-> "absent", val |-> 0, text |-> <<>>]

Users == {"A", "B"}

RawAmounts ==
    { Num(0), Num(-6), Num(30000), Num(300000), Num(1200000),
      Str(<<"3", "0", "0", "0", "0">>), Str(<<"n", "o", "t", "-", "a", "-", "n", "u", "m", "b", "e", "r">>),
      Null, Absent }

RawRecords == { [user |-> u, stakedAmount |-> a] : u \in Users, a \in RawAmounts }

RECURSIVE SeqsUpTo(_, _)
SeqsUpTo(S, n) ==
    IF n = 0 THEN { <<>> }
    ELSE LET shorter == SeqsUpTo(S, n - 1)
         IN  shorter \cup { Append(q, x) : q \in { r \in shorter : Len(r) = n - 1 }, x \in S }

\* the end-to-end scenario: A "30000", B "0", C "300000"
ExampleLeaderboard ==
    << [user |-> "A", stakedAmount |-> Str(<<"3", "0", "0", "0", "0">>)],
       [user |-> "B", stakedAmount |-> Str(<<"0">>)],
       [user |-> "C", stakedAmount |-> Str(<<"3", "0", "0", "0", "0", "0">>)] >>

Leaderboards == SeqsUpTo(RawRecords, MaxRecs) \cup { ExampleLeaderboard }

(***************************************************************************)
(* pandas pieces used by both programs.                                    *)
(***************************************************************************)
\* pd.DataFrame(data).empty
df_empty(data) == Len(data) = 0

\* pd.DataFrame(data) has a column for every key some record carries
has_stakedAmount_column(data) ==
    \E i \in 1..Len(data) : data[i].stakedAmount.kind # "absent"

\* df["stakedAmount"] raises KeyError when the frame has rows but no such column
stakedAmount_KeyError(data) == ~df_empty(data) /\ ~has_stakedAmount_column(data)

\* pd.to_numeric(cell, errors="coerce"): NaN for None, for a missing cell and
\* for text that is no number
to_numeric(cell) ==
    CASE cell.kind = "num" -> [nan |-> FALSE, v |-> cell.val]
      [] cell.kind = "str" ->
            LET p == ParseNumber(cell.text)
            IN  IF p.ok THEN [nan |-> FALSE, v |-> p.v] ELSE [nan |-> TRUE, v |-> 0]
      [] OTHER -> [nan |-> TRUE, v |-> 0]

fillna(x, d) == IF x.nan THEN d ELSE x.v

\* pd.to_numeric(df["stakedAmount"], errors="coerce").fillna(0.0), one cell
coerce_stakedAmount(cell) == fillna(to_numeric(cell), 0)

Users_of(df) == { df[i].user : i \in 1..Len(df) }

\* Series.nunique()
nunique(df) == Cardinality(Users_of(df))

RECURSIVE SumStaked(_)
SumStaked(df) == IF df = <<>> THEN 0 ELSE Head(df).stakedAmount + SumStaked(Tail(df))

RECURSIVE MaxStaked(_)
MaxStaked(df) ==
    IF Len(df) = 1 THEN df[1].stakedAmount
    ELSE LET m == MaxStaked(Tail(df))
         IN  IF Head(df).stakedAmount >= m THEN Head(df).stakedAmount ELSE m

RECURSIVE InsertInt(_, _)
InsertInt(x, s) ==
    IF s = <<>> THEN <<x>>
    ELSE IF x <= Head(s) THEN <<x>> \o s
    ELSE <<Head(s)>> \o InsertInt(x, Tail(s))

RECURSIVE SortedStakes(_)
SortedStakes(df) ==
    IF df = <<>> THEN <<>> ELSE InsertInt(Head(df).stakedAmount, SortedStakes(Tail(df)))

\* Series.median(): the middle value, or the mean of the two middle values
\* (every positive amount enumerated is even, so the mean is a whole number)
MedianStaked(df) ==
    LET s == SortedStakes(df)
        n == Len(s)
    IN  IF n % 2 = 1 THEN s[(n + 1) \div 2]
        ELSE (s[n \div 2] + s[(n \div 2) + 1]) \div 2

(***************************************************************************)
(* Calendar dates.  date.today() is a civil date [y, m, d]; the file keeps *)
(* its isoformat() text; pd.to_datetime parses the text back.              *)
(***************************************************************************)
Date(y, m, d) == [y |-> y, m |-> m, d |-> d]

Days ==
    { Date(2024, 11, 30), Date(2024, 12, 1), Date(2024, 12, 31), Date(2025, 1, 1),
      Date(2025, 1, 9), Date(2025, 1, 10), Date(2025, 1, 30), Date(2025, 3, 31) }

\* datetime.date.isoformat(): YYYY-MM-DD
isoformat(date) ==
    Pad(DigitsOf(date.y), 4) \o <<"-">> \o Pad(DigitsOf(date.m), 2) \o <<"-">>
        \o Pad(DigitsOf(date.d), 2)

IsLeap(y) == (y % 4 = 0) /\ ((y % 100 # 0) \/ (y % 400 = 0))

DaysInMonth(y, m) ==
    IF m = 2 THEN (IF IsLeap(y) THEN 29 ELSE 28)
    ELSE IF m \in {4, 6, 9, 11} THEN 30 ELSE 31

RECURSIVE DaysBeforeMonth(_, _)
DaysBeforeMonth(y, m) ==
    IF m = 1 THEN 0 ELSE DaysBeforeMonth(y, m - 1) + DaysInMonth(y, m - 1)

\* proleptic Gregorian day number of a civil date
ToOrdinal(y, m, d) ==
    (y - 1) * 365 + ((y - 1) \div 4) - ((y - 1) \div 100) + ((y - 1) \div 400)
        + DaysBeforeMonth(y, m) + d

\* pd.to_datetime of one "YYYY-MM-DD" cell, as a day number
to_datetime(text) ==
    ToOrdinal(DigitsValue(SubSeq(text, 1, 4)), DigitsValue(SubSeq(text, 6, 7)),
              DigitsValue(SubSeq(text, 9, 10)))

(***************************************************************************)
(* Summary payload: any subset of the fields may be missing.               *)
(***************************************************************************)
SummaryKeys == {"totalStaked", "tvlUsd", "percentageOfCurrentSupply"}

SummaryValue(k) ==
    CASE k = "totalStaked" -> 5000000
      [] k = "tvlUsd" -> 7500
      [] OTHER -> 12

Summaries == { [k \in S |-> SummaryValue(k)] : S \in SUBSET SummaryKeys }

\* dict.get(key, default)
get(d, key, default) == IF key \in DOMAIN d THEN d[key] ELSE default

(***************************************************************************)
(* snapshot_daily.py: the row of the day.  A number is [v, f]: its value   *)
(* and whether it is a float (which decides how it is written).            *)
(***************************************************************************)
Int64(n) == [v |-> n, f |-> FALSE]
Float(n) == [v |-> n, f |-> TRUE]

NumericCols ==
    << "total_staked", "tvl_usd", "percentage_supply", "active_wallets", "median_stake",
       "max_stake", "zero_stake_wallets", "tier0", "tier1", "tier2", "tier3", "tier4" >>

cols == <<"snapshot_date">> \o NumericCols

ColSet == { cols[i] : i \in 1..Len(cols) }

NumericColSet == { NumericCols[i] : i \in 1..Len(NumericCols) }

\* df after df["stakedAmount"] = pd.to_numeric(...).fillna(0.0)
snapshot_df(leaderboard) ==
    [ i \in 1..Len(leaderboard) |->
        [user |-> leaderboard[i].user,
         stakedAmount |-> coerce_stakedAmount(leaderboard[i].stakedAmount)] ]

snapshot_active_df(df) == SelectSeq(df, LAMBDA r : r.stakedAmount > 0)

\* df.loc[df["stakedAmount"] <= 0]
snapshot_zero_df(df) == SelectSeq(df, LAMBDA r : r.stakedAmount <= 0)

\* active_df.groupby("tier")["user"].nunique(), read with .get(i, 0)
snapshot_tier_count(active_df, i) ==
    nunique(SelectSeq(active_df, LAMBDA r : snapshot_classify_tier(r.stakedAmount) = i))

total_staked_no_fallback(leaderboard, summary) == Float(get(summary, "totalStaked", 0))

\* float(summary.get("totalStaked", float(df["stakedAmount"].sum()) if not df.empty else 0))
total_staked(leaderboard, summary) ==
    Float(get(summary, "totalStaked",
              IF ~df_empty(leaderboard) THEN SumStaked(snapshot_df(leaderboard)) ELSE 0))

tvl_usd(summary) == Float(get(summary, "tvlUsd", 0))

perc_supply(summary) == Float(get(summary, "percentageOfCurrentSupply", 0))

\* the dict `row`
snapshot_row(leaderboard, summary, today) ==
    LET df        == snapshot_df(leaderboard)
        active_df == snapshot_active_df(df)
        empty     == df_empty(leaderboard)
    IN  [ snapshot_date      |-> today,
          total_staked       |-> total_staked(leaderboard, summary),
          tvl_usd            |-> tvl_usd(summary),
          percentage_supply  |-> perc_supply(summary),
          active_wallets     |-> Int64(IF empty THEN 0 ELSE nunique(active_df)),
          median_stake       |-> IF empty THEN Int64(0)
                                 ELSE Float(IF active_df # <<>> THEN MedianStaked(active_df) ELSE 0),
          max_stake          |-> IF empty THEN Int64(0)
                                 ELSE Float(IF active_df # <<>> THEN MaxStaked(active_df) ELSE 0),
          zero_stake_wallets |-> Int64(IF empty THEN 0 ELSE nunique(snapshot_zero_df(df))),
          tier0 |-> Int64(IF empty THEN 0 ELSE snapshot_tier_count(active_df, 0)),
          tier1 |-> Int64(IF empty THEN 0 ELSE snapshot_tier_count(active_df, 1)),
          tier2 |-> Int64(IF empty THEN 0 ELSE snapshot_tier_count(active_df, 2)),
          tier3 |-> Int64(IF empty THEN 0 ELSE snapshot_tier_count(active_df, 3)),
          tier4 |-> Int64(IF empty THEN 0 ELSE snapshot_tier_count(active_df, 4)) ]

(***************************************************************************)
(* daily.csv: the header is fixed, the state keeps the data lines, each a  *)
(* record of cell texts.                                                   *)
(***************************************************************************)
FormatCell(x) == IF x.f THEN FormatFloat(x.v) ELSE FormatInt(x.v)

\* csv.DictWriter.writerow(row): str() of every value
DictWriter_line(row) ==
    [ c \in ColSet |-> IF c = "snapshot_date" THEN row[c] ELSE FormatCell(row[c]) ]

\* pd.read_csv: snapshot_date stays text; a numeric column is float64 when any
\* of its cells is written with a fraction, int64 otherwise
read_csv(lines) ==
    LET parsed  == [ i \in 1..Len(lines) |->
                       [ c \in NumericColSet |-> ParseNumber(lines[i][c]) ] ]
        isfloat == [ c \in NumericColSet |-> \E i \in 1..Len(lines) : parsed[i][c].f ]
    IN  [ i \in 1..Len(lines) |->
            [ c \in ColSet |->
                IF c = "snapshot_date" THEN lines[i][c]
                ELSE [v |-> parsed[i][c].v, f |-> isfloat[c]] ] ]

\* pd.concat([hist, pd.DataFrame([row], columns=cols)], ignore_index=True):
\* a column is float64 when it is so in a non-empty part
concat(hist, row) ==
    LET both    == Append(hist, row)
        isfloat == [ c \in NumericColSet |-> \E i \in 1..Len(both) : both[i][c].f ]
    IN  [ i \in 1..Len(both) |->
            [ c \in ColSet |->
                IF c = "snapshot_date" THEN both[i][c]
                ELSE [v |-> both[i][c].v, f |-> isfloat[c]] ] ]

RECURSIVE InsertByDate(_, _)
InsertByDate(r, s) ==
    IF s = <<>> THEN <<r>>
    ELSE IF StrLess(Head(s).snapshot_date, r.snapshot_date)
         THEN <<Head(s)>> \o InsertByDate(r, Tail(s))
         ELSE <<r>> \o s

sort_values_none(hist) == hist

\* hist.sort_values("snapshot_date"): ascending by the text of the column
RECURSIVE sort_values(_)
sort_values(hist) ==
    IF hist = <<>> THEN <<>>
    ELSE InsertByDate(hist[Len(hist)], sort_values(SubSeq(hist, 1, Len(hist) - 1)))

\* hist.to_csv(out_csv, index=False)
to_csv(hist) == [ i \in 1..Len(hist) |-> DictWriter_line(hist[i]) ]

\* hist[hist["snapshot_date"] != today]
drop_today(hist, today) == SelectSeq(hist, LAMBDA r : r.snapshot_date # today)

\* the lines of daily.csv after the upsert of `row`
upsert(exists, lines, row) ==
    IF exists
    THEN to_csv(sort_values(concat(drop_today(read_csv(lines), row.snapshot_date), row)))
    ELSE <<DictWriter_line(row)>>

NoRow == [ c \in ColSet |-> IF c = "snapshot_date" THEN <<>> ELSE Int64(0) ]

NoSnap ==
    [ ran |-> FALSE, leaderboard |-> <<>>, summary |-> <<>>, today |-> Date(1, 1, 1),
      outcome |-> "none", row |-> NoRow, rerun |-> FALSE, existed |-> FALSE ]

(***************************************************************************)
(* One run of scripts/snapshot_daily.py with the two payloads fetched and  *)
(* the date of the day.                                                    *)
(***************************************************************************)
RecordSnapshot(leaderboard, summary, today) ==
    LET rerun == snap.ran /\ snap.leaderboard = leaderboard /\ snap.summary = summary
                 /\ snap.today = today
        row   == snapshot_row(leaderboard, summary, isoformat(today))
    IN  /\ IF stakedAmount_KeyError(leaderboard)
           THEN \* line 41 raises; the script ends before anything is written
                /\ UNCHANGED <<out_csv_exists, out_csv>>
                /\ snap' = [ ran |-> TRUE, leaderboard |-> leaderboard, summary |-> summary,
                             today |-> today, outcome |-> "KeyError", row |-> NoRow,
                             rerun |-> rerun, existed |-> out_csv_exists ]
           ELSE /\ out_csv' = upsert(out_csv_exists, out_csv, row)
                /\ out_csv_exists' = TRUE
                /\ snap' = [ ran |-> TRUE, leaderboard |-> leaderboard, summary |-> summary,
                             today |-> today, outcome |-> "ok", row |-> row,
                             rerun |-> rerun, existed |-> out_csv_exists ]
        /\ UNCHANGED <<dash, view, tiers>>

(***************************************************************************)
(* KONG_dashboard_app.py: one run of the page script.                      *)
(***************************************************************************)
\* fetch_leaderboard after the fetch: stakedAmount coerced, tier attached; idx is
\* the DataFrame index of the row
fetch_leaderboard(data) ==
    [ i \in 1..Len(data) |->
        [idx |-> i, user |-> data[i].user,
         stakedAmount |-> coerce_stakedAmount(data[i].stakedAmount),
         tier |-> classify_tier(coerce_stakedAmount(data[i].stakedAmount))] ]

\* df = df_all[df_all["stakedAmount"] > 0]
active_view(df_all) == SelectSeq(df_all, LAMBDA r : r.stakedAmount > 0)

\* df.groupby("tier").agg(wallets=nunique(user), total_kong=sum).sort_values("tier"):
\* one entry per tier that has a member
RECURSIVE tier_counts_from(_, _)
tier_counts_from(df, t) ==
    IF t > 4 THEN <<>>
    ELSE LET g == SelectSeq(df, LAMBDA r : r.tier = t)
         IN  (IF g = <<>> THEN <<>>
              ELSE << [tier |-> t, wallets |-> nunique(g), total_kong |-> SumStaked(g)] >>)
             \o tier_counts_from(df, t + 1)

tier_counts(df) == tier_counts_from(df, 0)

\* tc.get(t, 0)
tc_get(tc, t) ==
    IF \E i \in 1..Len(tc) : tc[i].tier = t
    THEN (CHOOSE e \in { tc[i] : i \in 1..Len(tc) } : e.tier = t).wallets
    ELSE 0

\* df_all.loc[df_all["stakedAmount"] <= 0, "user"].nunique()
zero_stake_wallets(df_all) == nunique(SelectSeq(df_all, LAMBDA r : r.stakedAmount <= 0))

\* slider ranges (lines 232-236), sampled
RiceCutoffs == {1000, 30000, 100000}
WhaleCutoffs == {100000, 300000, 1000000}

\* The whale slider needs min_value <= value <= max_value with value 1_000_000 and
\* max_value int(df["stakedAmount"].max()); int() of the NaN maximum of an empty
\* active view raises, and so does a slider whose default lies outside its range.
slider_fails(df) == df = <<>> \/ MaxStaked(df) < 1000000

cutoffs_invalid_gt(rice_cutoff, whale_cutoff) == rice_cutoff > whale_cutoff

\* if rice_cutoff >= whale_cutoff: st.error(...); st.stop()
cutoffs_invalid(rice_cutoff, whale_cutoff) == rice_cutoff >= whale_cutoff

rice_df(df, rice_cutoff) == SelectSeq(df, LAMBDA r : r.stakedAmount < rice_cutoff)

retail_df_open(df, rice_cutoff, whale_cutoff) ==
    SelectSeq(df, LAMBDA r : r.stakedAmount >= rice_cutoff /\ r.stakedAmount < whale_cutoff)

retail_df(df, rice_cutoff, whale_cutoff) ==
    SelectSeq(df, LAMBDA r : r.stakedAmount >= rice_cutoff /\ r.stakedAmount <= whale_cutoff)

whale_df(df, whale_cutoff) == SelectSeq(df, LAMBDA r : r.stakedAmount > whale_cutoff)

RECURSIVE InsertDesc(_, _)
InsertDesc(r, s) ==
    IF s = <<>> THEN <<r>>
    ELSE IF Head(s).stakedAmount >= r.stakedAmount
         THEN <<Head(s)>> \o InsertDesc(r, Tail(s))
         ELSE <<r>> \o s

RECURSIVE SortDesc(_)
SortDesc(df) ==
    IF df = <<>> THEN <<>>
    ELSE InsertDesc(df[Len(df)], SortDesc(SubSeq(df, 1, Len(df) - 1)))

\* df.nlargest(n, "stakedAmount"): descending, ties in their original order
nlargest(n, df) ==
    LET s == SortDesc(df) IN SubSeq(s, 1, IF Len(s) < n THEN Len(s) ELSE n)

NoDash ==
    [ outcome |-> "none", leaderboard |-> <<>>, df_all |-> <<>>, df |-> <<>>,
      total_staked |-> 0, tier_counts |-> <<>>, tiles |-> [ t \in 0..4 |-> 0 ],
      zero_stake_wallets |-> 0,
      sliders |-> FALSE, rice_cutoff |-> 0, whale_cutoff |-> 0, partitioned |-> FALSE,
      rice_df |-> <<>>, retail_df |-> <<>>, whale_df |-> <<>>, top_whales |-> <<>> ]

\* One run of the page script: the payloads fetched, the values the two sliders
\* hand back.  The display formatting (format_kong) and the charts are not kept.
Render(leaderboard, summary, rice_cutoff, whale_cutoff) ==
    LET df_all == fetch_leaderboard(leaderboard)
        df     == active_view(df_all)
        kpis   == [ NoDash EXCEPT
                      !.leaderboard = leaderboard, !.df_all = df_all, !.df = df,
                      !.total_staked = get(summary, "totalStaked", SumStaked(df)),
                      !.tier_counts = tier_counts(df),
                      !.tiles = [ t \in 0..4 |-> tc_get(tier_counts(df), t) ],
                      !.zero_stake_wallets = zero_stake_wallets(df_all) ]
        shown  == [ kpis EXCEPT !.sliders = TRUE, !.rice_cutoff = rice_cutoff,
                                !.whale_cutoff = whale_cutoff ]
    IN  /\ (~slider_fails(df)) => whale_cutoff <= MaxStaked(df)
        /\ dash' =
             IF stakedAmount_KeyError(leaderboard)
             THEN [ NoDash EXCEPT !.outcome = "KeyError", !.leaderboard = leaderboard ]
             ELSE IF df_empty(leaderboard) \/ DOMAIN summary = {}
             THEN [ NoDash EXCEPT !.outcome = "no_data", !.leaderboard = leaderboard,
                                  !.df_all = df_all ]
             ELSE IF slider_fails(df)
             THEN [ kpis EXCEPT !.outcome = "slider_error" ]
             ELSE IF cutoffs_invalid(rice_cutoff, whale_cutoff)
             THEN [ shown EXCEPT !.outcome = "cutoff_error" ]
             ELSE [ shown EXCEPT
                      !.outcome = "ok", !.partitioned = TRUE,
                      !.rice_df = rice_df(df, rice_cutoff),
                      !.retail_df = retail_df(df, rice_cutoff, whale_cutoff),
                      !.whale_df = whale_df(df, whale_cutoff),
                      !.top_whales = nlargest(20, whale_df(df, whale_cutoff)) ]
        /\ UNCHANGED <<out_csv_exists, out_csv, snap, view, tiers>>

(***************************************************************************)
(* KONG_dashboard_app.py: the history loader and the window of the         *)
(* "Time-series & Growth" card.                                            *)
(***************************************************************************)
DodCols ==
    {"total_staked", "tvl_usd", "active_wallets", "percentage_supply", "median_stake",
     "max_stake"}

DmaCols == {"total_staked", "active_wallets", "tvl_usd"}

NaN == [nan |-> TRUE, v |-> 0]

RECURSIVE InsertByDatetime(_, _)
InsertByDatetime(r, s) ==
    IF s = <<>> THEN <<r>>
    ELSE IF Head(s).snapshot_date <= r.snapshot_date
         THEN <<Head(s)>> \o InsertByDatetime(r, Tail(s))
         ELSE <<r>> \o s

\* hist.sort_values("snapshot_date").reset_index(drop=True) on datetime64 values
RECURSIVE sort_by_datetime(_)
sort_by_datetime(t) ==
    IF t = <<>> THEN <<>>
    ELSE InsertByDatetime(t[Len(t)], sort_by_datetime(SubSeq(t, 1, Len(t) - 1)))

\* Series.diff(): NaN in the first row, then the difference to the row before
diff(t, c, i) ==
    IF i = 1 THEN NaN ELSE [nan |-> FALSE, v |-> t[i].vals[c] - t[i - 1].vals[c]]

RECURSIVE SumCol(_, _, _, _)
SumCol(t, c, from, to) ==
    IF from > to THEN 0 ELSE t[from].vals[c] + SumCol(t, c, from + 1, to)

\* (mutant) rolling(7, min_periods=1): an average over the rows there are
rolling_mean_partial(t, c, i) ==
    IF i < 7 THEN [nan |-> FALSE, sum |-> SumCol(t, c, 1, i), count |-> i]
    ELSE [nan |-> FALSE, sum |-> SumCol(t, c, i - 6, i), count |-> 7]

\* Series.rolling(7).mean(): NaN until 7 rows are in the window; the mean is kept
\* as the sum of the window and the number of rows it is divided by
rolling_mean(t, c, i) ==
    IF i < 7 THEN [nan |-> TRUE, sum |-> 0, count |-> 7]
    ELSE [nan |-> FALSE, sum |-> SumCol(t, c, i - 6, i), count |-> 7]

\* load_daily_history() on a file that exists and has rows
load_daily_history(lines) ==
    LET raw == read_csv(lines)
        t   == sort_by_datetime(
                 [ i \in 1..Len(raw) |->
                     [ snapshot_date |-> to_datetime(raw[i].snapshot_date),
                       vals |-> [ c \in NumericColSet |-> raw[i][c].v ] ] ])
    IN  [ i \in 1..Len(t) |->
            [ snapshot_date |-> t[i].snapshot_date,
              vals |-> t[i].vals,
              dod  |-> [ c \in DodCols |-> diff(t, c, i) ],
              dma  |-> [ c \in DmaCols |-> rolling_mean(t, c, i) ] ] ]

Periods == {"30d", "90d", "All"}

period_days(period) == IF period = "30d" THEN 30 ELSE 90

select_window_exclusive(hist, period) ==
    IF period = "All" THEN hist
    ELSE SelectSeq(hist, LAMBDA r :
             r.snapshot_date > hist[Len(hist)].snapshot_date - period_days(period))

\* start = hist["snapshot_date"].max() - pd.Timedelta(days=N);
\* view = hist[hist["snapshot_date"] >= start]   (hist is sorted: the max is last)
select_window(hist, period) ==
    IF period = "All" THEN hist
    ELSE SelectSeq(hist, LAMBDA r :
             r.snapshot_date >= hist[Len(hist)].snapshot_date - period_days(period))

NoView ==
    [ outcome |-> "none", period |-> "All", hist |-> <<>>, view |-> <<>>,
      delta_total |-> 0, delta_wallets |-> 0, delta_tvl |-> 0 ]

\* lines 335-407 for one choice of the radio button; no core column is ever
\* missing in a file the recorder wrote, so `valid` is `view`
BuildView(period) ==
    /\ view' =
         IF ~out_csv_exists \/ out_csv = <<>>
         THEN [ NoView EXCEPT !.outcome = "no_history", !.period = period ]
         ELSE LET hist == load_daily_history(out_csv)
                  v    == select_window(hist, period)
                  n    == Len(v)
                  d(c) == IF n >= 2 THEN v[n].vals[c] - v[n - 1].vals[c] ELSE 0
              IN  [ outcome |-> "ok", period |-> period, hist |-> hist, view |-> v,
                    delta_total |-> d("total_staked"),
                    delta_wallets |-> d("active_wallets"),
                    delta_tvl |-> d("tvl_usd") ]
    /\ UNCHANGED <<out_csv_exists, out_csv, snap, dash, tiers>>

(***************************************************************************)
(* The two copies of classify_tier applied to a stake amount.              *)
(***************************************************************************)
NoTiers == [ ran |-> FALSE, x |-> 0, app |-> 0, script |-> 0, prev_x |-> 0, prev_app |-> 0 ]

Thresholds == {25000, 62500, 125000, 250000}

\* the non-negative amounts enumerated: 0.., and a window around every threshold
TierInputs ==
    (0..TierWindow)
        \cup UNION { (t - TierWindow)..(t + TierWindow) : t \in Thresholds }

ClassifyTier(x) ==
    /\ tiers' = [ ran |-> TRUE, x |-> x, app |-> classify_tier(x),
                  script |-> snapshot_classify_tier(x),
                  prev_x |-> IF tiers.ran THEN tiers.x ELSE x,
                  prev_app |-> IF tiers.ran THEN tiers.app ELSE classify_tier(x) ]
    /\ UNCHANGED <<out_csv_exists, out_csv, snap, dash, view>>

(***************************************************************************)
(* Specifications.                                                         *)
(***************************************************************************)
FullSummary == [ k \in SummaryKeys |-> SummaryValue(k) ]

EmptySummary == [ k \in {} |-> 0 ]

\* a payload in which no record carries the stakedAmount key
KeylessLeaderboard == << [user |-> "A", stakedAmount |-> Absent] >>

Idle ==
    /\ snap = NoSnap
    /\ dash = NoDash
    /\ view = NoView
    /\ tiers = NoTiers

\* The recorder over many days: the history table is missing, or present and empty.
HistLeaderboards == { ExampleLeaderboard, KeylessLeaderboard }

HistSummaries == { FullSummary, EmptySummary }

Init ==
    /\ out_csv_exists \in BOOLEAN
    /\ out_csv = <<>>
    /\ Idle

\* days whose order as text and whose order in time could differ without padding
HistDays == { Date(2024, 12, 31), Date(2025, 1, 9), Date(2025, 1, 10), Date(2025, 3, 31) }

Next ==
    \E leaderboard \in HistLeaderboards, summary \in HistSummaries, today \in HistDays :
        RecordSnapshot(leaderboard, summary, today)

Spec == Init /\ [][Next]_vars

\* One run of the recorder on one day, over every payload enumerated.
RowDays == { Date(2025, 1, 30) }

InitRow ==
    /\ out_csv_exists \in BOOLEAN
    /\ out_csv = <<>>
    /\ Idle

NextRow ==
    /\ ~snap.ran
    /\ \E leaderboard \in Leaderboards, summary \in Summaries, today \in RowDays :
        RecordSnapshot(leaderboard, summary, today)

SpecRow == InitRow /\ [][NextRow]_vars

\* One run of the page script, over every payload enumerated.
DashSummaries == { FullSummary, EmptySummary, [ k \in {"tvlUsd"} |-> SummaryValue(k) ] }

NextDash ==
    /\ dash.outcome = "none"
    /\ \E leaderboard \in Leaderboards, summary \in DashSummaries,
       rice_cutoff \in RiceCutoffs, whale_cutoff \in WhaleCutoffs :
        Render(leaderboard, summary, rice_cutoff, whale_cutoff)

InitDash ==
    /\ out_csv_exists = FALSE
    /\ out_csv = <<>>
    /\ Idle

SpecDash == InitDash /\ [][NextDash]_vars

\* The two classifiers over the amounts enumerated.
NextTier == \E x \in TierInputs : ClassifyTier(x)

SpecTier == InitDash /\ [][NextTier]_vars

\* The history card over every table the recorder leaves behind: for any set of
\* days, one run per day, each with one of the payload pairs below.
ViewInputs ==
    { [leaderboard |-> ExampleLeaderboard, summary |-> FullSummary],
      [leaderboard |-> <<>>, summary |-> EmptySummary] }

RECURSIVE FileAfterRuns(_, _)
FileAfterRuns(S, f) ==
    IF S = {} THEN <<>>
    ELSE LET day == CHOOSE d \in S : TRUE
         IN  upsert(TRUE, FileAfterRuns(S \ {day}, f),
                    snapshot_row(f[day].leaderboard, f[day].summary, isoformat(day)))

InitView ==
    /\ \E S \in SUBSET Days : \E f \in [S -> ViewInputs] :
          /\ out_csv_exists = TRUE
          /\ out_csv = FileAfterRuns(S, f)
    /\ Idle

NextView == view.outcome = "none" /\ \E period \in Periods : BuildView(period)

SpecView == InitView /\ [][NextView]_vars

(***************************************************************************)
(* Properties.                                                             *)
(***************************************************************************)
\* the stored history as values: the date of every line and its 12 numbers
HistoryValues(lines) ==
    [ i \in 1..Len(lines) |->
        [ c \in ColSet |->
            IF c = "snapshot_date" THEN lines[i][c] ELSE ParseNumber(lines[i][c]).v ] ]

LinesOf(lines, date_text) == { i \in 1..Len(lines) : lines[i].snapshot_date = date_text }

RowValues(row) ==
    [ c \in ColSet |-> IF c = "snapshot_date" THEN row[c] ELSE row[c].v ]

\* C1: starting from a missing or empty table, after any sequence of recorder
\* runs the snapshot dates of the stored history are strictly ascending in time
\* from the first line to the last (so no date occurs twice).
C1_StrictlyAscending ==
    \A i \in 1..(Len(out_csv) - 1) :
        to_datetime(out_csv[i].snapshot_date) < to_datetime(out_csv[i + 1].snapshot_date)

\* C1 witness: a run for a day earlier than every stored day, and a run that
\* replaced a stored day, both leave a table of three or more days.
C1_Witness ==
    /\ snap.outcome = "ok"
    /\ snap.existed
    /\ Len(out_csv) >= 3
    /\ out_csv[1].snapshot_date = isoformat(snap.today)
    /\ out_csv[1].snapshot_date = <<"2", "0", "2", "4", "-", "1", "2", "-", "3", "1">>
    /\ out_csv[2].snapshot_date = <<"2", "0", "2", "5", "-", "0", "1", "-", "0", "9">>
    /\ out_csv[3].snapshot_date = <<"2", "0", "2", "5", "-", "0", "1", "-", "1", "0">>

\* C2: a second run with the same leaderboard, the same summary and the same
\* day leaves the history as the first run left it, with exactly one line for
\* that day whose values are those of the first run.
C2_Idempotent ==
    [][ snap'.rerun =>
          /\ HistoryValues(out_csv') = HistoryValues(out_csv)
          /\ Cardinality(LinesOf(out_csv', isoformat(snap'.today))) = 1
          /\ \A i \in LinesOf(out_csv', isoformat(snap'.today)) :
                HistoryValues(out_csv')[i] = RowValues(snap.row) ]_vars

\* C2, for the runs that reach the upsert: the same statement holds of every
\* second run whose payload has a stakedAmount column (or is empty).
C2_IdempotentWhenWritten ==
    [][ (snap'.rerun /\ snap'.outcome = "ok") =>
          /\ HistoryValues(out_csv') = HistoryValues(out_csv)
          /\ Cardinality(LinesOf(out_csv', isoformat(snap'.today))) = 1
          /\ \A i \in LinesOf(out_csv', isoformat(snap'.today)) :
                HistoryValues(out_csv')[i] = RowValues(snap.row) ]_vars

\* every line of `before` for another day than `today` is a line of `after`
\* with the same 13 values
OtherDaysKept(before, after, today) ==
    \A i \in 1..Len(before) :
        before[i].snapshot_date # today =>
            \E j \in 1..Len(after) : HistoryValues(after)[j] = HistoryValues(before)[i]

\* C3: a run for `today` keeps every line of another day with its 13 values, so
\* the number of lines never decreases and grows by exactly one when `today`
\* was not yet present.
C3_FrameAndGrowth ==
    [][ /\ OtherDaysKept(out_csv, out_csv', isoformat(snap'.today))
        /\ Len(out_csv') >= Len(out_csv)
        /\ (LinesOf(out_csv, isoformat(snap'.today)) = {}
               => Len(out_csv') = Len(out_csv) + 1) ]_vars

\* C3, without the growth by one: no run removes or changes a line of another
\* day, and no run shortens the table.
C3_FrameOnly ==
    [][ /\ OtherDaysKept(out_csv, out_csv', isoformat(snap'.today))
        /\ Len(out_csv') >= Len(out_csv) ]_vars

\* the tier of the table in the specification: the number of thresholds at or
\* below x
TierOfTable(x) == Cardinality({ t \in Thresholds : t <= x })

\* C4: for every non-negative x both copies of classify_tier return the tier of
\* the table (lower bounds inclusive, upper bounds exclusive), one of 0..4, the
\* same in both copies, and non-decreasing in x.
C4_TierTable ==
    tiers.ran =>
        /\ tiers.app \in 0..4
        /\ tiers.app = TierOfTable(tiers.x)
        /\ tiers.script = tiers.app
        /\ (tiers.prev_x <= tiers.x => tiers.prev_app <= tiers.app)
        /\ (tiers.prev_x >= tiers.x => tiers.prev_app >= tiers.app)

\* C4 witness: 24999 classified 0 and then 25000 classified 1 by both copies.
C4_Witness ==
    /\ tiers.ran
    /\ tiers.prev_x = 24999 /\ tiers.prev_app = 0
    /\ tiers.x = 25000 /\ tiers.app = 1 /\ tiers.script = 1

\* a raw stakedAmount that is no number: null, absent, or text that does not parse
Unparsable(raw) ==
    \/ raw.kind \in {"null", "absent"}
    \/ raw.kind = "str" /\ ~ParseNumber(raw.text).ok

\* C5: whatever the raw stakedAmount of a record is, normalisation completes
\* without an error, every resulting stakedAmount is a non-negative number, and
\* an unparsable or absent one becomes 0 with tier 0.
C5_NormalizationTotal ==
    dash.outcome # "none" =>
        /\ dash.outcome # "KeyError"
        /\ Len(dash.df_all) = Len(dash.leaderboard)
        /\ \A i \in 1..Len(dash.df_all) :
              /\ dash.df_all[i].stakedAmount >= 0
              /\ Unparsable(dash.leaderboard[i].stakedAmount)
                    => dash.df_all[i].stakedAmount = 0 /\ dash.df_all[i].tier = 0

\* C5, as far as the code goes: when some record carries the key, an unparsable
\* or absent stakedAmount becomes 0 with tier 0 and a number keeps its value,
\* negative ones included; when no record carries it the run ends in KeyError.
C5_CoercedUnlessKeyless ==
    dash.outcome # "none" =>
        IF dash.leaderboard # <<>>
           /\ \A i \in 1..Len(dash.leaderboard) : dash.leaderboard[i].stakedAmount.kind = "absent"
        THEN dash.outcome = "KeyError"
        ELSE /\ dash.outcome # "KeyError"
             /\ Len(dash.df_all) = Len(dash.leaderboard)
             /\ \A i \in 1..Len(dash.df_all) :
                   LET raw == dash.leaderboard[i].stakedAmount
                   IN  /\ Unparsable(raw)
                          => dash.df_all[i].stakedAmount = 0 /\ dash.df_all[i].tier = 0
                       /\ raw.kind = "num" => dash.df_all[i].stakedAmount = raw.val

\* the records of the payload of the last recorder run, normalised
SnapRecords == snapshot_df(snap.leaderboard)

UsersWhere(df, P(_)) == { df[i].user : i \in { j \in 1..Len(df) : P(df[j].stakedAmount) } }

\* the statistics of the row that rest on the active records alone
ActiveStatistics(row, df) ==
    LET active == SelectSeq(df, LAMBDA r : r.stakedAmount > 0)
    IN  /\ row.active_wallets.v = Cardinality(UsersWhere(df, LAMBDA a : a > 0))
        /\ row.median_stake.v = (IF active = <<>> THEN 0 ELSE MedianStaked(active))
        /\ row.max_stake.v = (IF active = <<>> THEN 0 ELSE MaxStaked(active))
        /\ \A a \in { active[i].stakedAmount : i \in 1..Len(active) } : row.max_stake.v >= a
        /\ \A t \in 0..4 :
              row[<<"tier0", "tier1", "tier2", "tier3", "tier4">>[t + 1]].v =
                 Cardinality(UsersWhere(df, LAMBDA a : a > 0 /\ TierOfTable(a) = t))

ExampleStatistics(row) ==
    /\ row.tier1.v = 1 /\ row.tier4.v = 1
    /\ row.tier0.v = 0 /\ row.tier2.v = 0 /\ row.tier3.v = 0
    /\ row.active_wallets.v = 2 /\ row.zero_stake_wallets.v = 1

\* C6: in the row of a run, activeWallets, medianStake, maxStake and tier0..tier4
\* rest on the records with stakedAmount > 0 alone, zeroStakeWallets is the
\* number of distinct users of the records with stakedAmount equal to 0, and
\* the leaderboard A=30000, B=0, C=300000 gives tier1 = tier4 = 1, the other
\* tiers 0, activeWallets 2 and zero_stake_wallets 1.
C6_ActiveAndZero ==
    snap.outcome = "ok" =>
        /\ ActiveStatistics(snap.row, SnapRecords)
        /\ snap.row.zero_stake_wallets.v = Cardinality(UsersWhere(SnapRecords, LAMBDA a : a = 0))
        /\ snap.leaderboard = ExampleLeaderboard => ExampleStatistics(snap.row)

\* C6, with the count the code keeps: zeroStakeWallets is the number of distinct
\* users of the records with stakedAmount at most 0.
C6_ActiveAndNonPositive ==
    snap.outcome = "ok" =>
        /\ ActiveStatistics(snap.row, SnapRecords)
        /\ snap.row.zero_stake_wallets.v = Cardinality(UsersWhere(SnapRecords, LAMBDA a : a <= 0))
        /\ snap.leaderboard = ExampleLeaderboard => ExampleStatistics(snap.row)

IdxOf(df) == { df[i].idx : i \in 1..Len(df) }

\* C7: with riceCutoff < whaleCutoff every active record is in exactly one of
\* rice (stakedAmount < riceCutoff), retail (riceCutoff <= stakedAmount <=
\* whaleCutoff) and whale (stakedAmount > whaleCutoff): the buckets are pairwise
\* disjoint and their sizes add up to the number of active records.
C7_SegmentsPartition ==
    dash.partitioned =>
        /\ dash.rice_cutoff < dash.whale_cutoff
        /\ \A i \in 1..Len(dash.df) :
              LET r == dash.df[i]
              IN  /\ (r.idx \in IdxOf(dash.rice_df)) <=> (r.stakedAmount < dash.rice_cutoff)
                  /\ (r.idx \in IdxOf(dash.retail_df)) <=>
                        (dash.rice_cutoff <= r.stakedAmount /\ r.stakedAmount <= dash.whale_cutoff)
                  /\ (r.idx \in IdxOf(dash.whale_df)) <=> (r.stakedAmount > dash.whale_cutoff)
        /\ IdxOf(dash.rice_df) \cap IdxOf(dash.retail_df) = {}
        /\ IdxOf(dash.rice_df) \cap IdxOf(dash.whale_df) = {}
        /\ IdxOf(dash.retail_df) \cap IdxOf(dash.whale_df) = {}
        /\ IdxOf(dash.rice_df) \cup IdxOf(dash.retail_df) \cup IdxOf(dash.whale_df)
              = IdxOf(dash.df)
        /\ Len(dash.rice_df) + Len(dash.retail_df) + Len(dash.whale_df) = Len(dash.df)

\* C7 witness: a record whose stake is the whale cutoff itself sits in retail,
\* next to a whale.
C7_Witness ==
    /\ dash.partitioned
    /\ Len(dash.df) = 2
    /\ Len(dash.retail_df) = 1
    /\ dash.retail_df[1].stakedAmount = dash.whale_cutoff
    /\ Len(dash.whale_df) = 1

\* C8: whenever riceCutoff >= whaleCutoff (equality included) the run reports the
\* validation error and computes no bucket and no top-whales ranking; a partition
\* is only ever computed with the cutoffs the sliders gave, rice below whale.
C8_InvalidCutoffsStop ==
    /\ (dash.sliders /\ dash.rice_cutoff >= dash.whale_cutoff) =>
          /\ dash.outcome = "cutoff_error"
          /\ ~dash.partitioned
          /\ dash.rice_df = <<>> /\ dash.retail_df = <<>> /\ dash.whale_df = <<>>
          /\ dash.top_whales = <<>>
    /\ dash.outcome = "cutoff_error" => dash.rice_cutoff >= dash.whale_cutoff

\* C8 witness: both sliders at 100000, on a leaderboard that has active records.
C8_Witness ==
    /\ dash.outcome = "cutoff_error"
    /\ dash.rice_cutoff = 100000 /\ dash.whale_cutoff = 100000
    /\ Len(dash.df) = 2

\* no record of the payload carries the stakedAmount key
Keyless(leaderboard) ==
    /\ leaderboard # <<>>
    /\ \A i \in 1..Len(leaderboard) : leaderboard[i].stakedAmount.kind = "absent"

RECURSIVE SumOfNormalized(_)
SumOfNormalized(leaderboard) ==
    IF leaderboard = <<>> THEN 0
    ELSE (IF Unparsable(Head(leaderboard).stakedAmount) THEN 0
          ELSE IF Head(leaderboard).stakedAmount.kind = "num"
               THEN Head(leaderboard).stakedAmount.val
               ELSE ParseNumber(Head(leaderboard).stakedAmount.text).v)
         + SumOfNormalized(Tail(leaderboard))

\* the row of the last run is the line of its day in the file
RowWritten ==
    /\ out_csv_exists
    /\ Cardinality(LinesOf(out_csv, isoformat(snap.today))) = 1
    /\ \A i \in LinesOf(out_csv, isoformat(snap.today)) :
          HistoryValues(out_csv)[i] = RowValues(snap.row)

\* no missing summary field makes a run fail: a run that writes no row is one
\* whose leaderboard has rows and no stakedAmount column
SummaryNeverFails ==
    /\ snap.outcome = "KeyError" <=> (snap.ran /\ Keyless(snap.leaderboard))
    /\ snap.outcome = "ok" => RowWritten

FromSummaryWhenPresent ==
    /\ "totalStaked" \in DOMAIN snap.summary
          => snap.row.total_staked.v = snap.summary["totalStaked"]
    /\ "tvlUsd" \in DOMAIN snap.summary => snap.row.tvl_usd.v = snap.summary["tvlUsd"]
    /\ "percentageOfCurrentSupply" \in DOMAIN snap.summary
          => snap.row.percentage_supply.v = snap.summary["percentageOfCurrentSupply"]

WindowDays(period) == IF period = "30d" THEN 30 ELSE IF period = "90d" THEN 90 ELSE 0

\* the rows shown are the stored rows dated on or after the latest date minus N
\* days (all of them for All), in ascending order of date
SelectedRows ==
    LET h == view.hist
        v == view.view
        k == Len(h) - Len(v)
    IN  /\ Len(h) = Len(out_csv)
        /\ \A i \in 1..Len(h) :
              \E j \in 1..Len(out_csv) :
                 /\ h[i].snapshot_date = to_datetime(out_csv[j].snapshot_date)
                 /\ \A c \in NumericColSet : h[i].vals[c] = HistoryValues(out_csv)[j][c]
        /\ \A i \in 1..(Len(h) - 1) : h[i].snapshot_date < h[i + 1].snapshot_date
        /\ k >= 0
        /\ \A i \in 1..Len(v) : v[i] = h[k + i]
        /\ \A i \in 1..Len(h) :
              (i > k) <=> (view.period = "All"
                             \/ h[i].snapshot_date >= h[Len(h)].snapshot_date - WindowDays(view.period))

\* C10: in the view of any window the day-over-day delta of each of the six
\* columns is absent in the first selected row and is row[i] - row[i-1] in every
\* later selected row, the selected rows being those dated on or after the
\* latest date minus N days, in ascending order.
C10_DeltaAbsentInFirstSelected ==
    view.outcome = "ok" =>
        /\ SelectedRows
        /\ \A c \in DodCols :
              /\ view.view[1].dod[c].nan
              /\ \A i \in 2..Len(view.view) :
                    /\ ~view.view[i].dod[c].nan
                    /\ view.view[i].dod[c].v = view.view[i].vals[c] - view.view[i - 1].vals[c]

\* C10 as amended: the deltas are taken over the whole stored history before the
\* window is cut: the delta is absent in the first stored row only and is
\* row[i] - row[i-1] of the stored rows everywhere else, so the first selected
\* row of a window that leaves out older rows carries its delta to the last row
\* left out; the selected rows are those dated on or after the latest date minus
\* N days (boundary included), in ascending order.
C10_DeltaOverStoredRows ==
    view.outcome = "ok" =>
        /\ SelectedRows
        /\ \A c \in DodCols :
              /\ view.hist[1].dod[c].nan
              /\ \A i \in 2..Len(view.hist) :
                    /\ ~view.hist[i].dod[c].nan
                    /\ view.hist[i].dod[c].v = view.hist[i].vals[c] - view.hist[i - 1].vals[c]
              /\ view.view[1].dod[c].nan <=> Len(view.view) = Len(view.hist)
              /\ \A i \in 2..Len(view.view) :
                    /\ ~view.view[i].dod[c].nan
                    /\ view.view[i].dod[c].v = view.view[i].vals[c] - view.view[i - 1].vals[c]

\* C10 witness: a 30-day window that starts on the boundary date 2024-12-31,
\* leaves out an older row, and whose first row has a delta to that row.
C10_Witness ==
    /\ view.outcome = "ok"
    /\ view.period = "30d"
    /\ Len(view.view) >= 2
    /\ Len(view.view) < Len(view.hist)
    /\ view.view[1].snapshot_date = ToOrdinal(2024, 12, 31)
    /\ view.view[Len(view.view)].snapshot_date = ToOrdinal(2025, 1, 30)
    /\ ~view.view[1].dod["total_staked"].nan
    /\ view.view[1].dod["total_staked"].v = 5000000

\* the sum of column c over the k rows of the table that end at row i
RECURSIVE SumOfLast(_, _, _, _)
SumOfLast(hist, c, i, k) ==
    IF k = 0 THEN 0 ELSE hist[i].vals[c] + SumOfLast(hist, c, i - 1, k - 1)

\* C11: in the historical table the 7-row moving average of total_staked,
\* active_wallets and tvl_usd is missing in rows 1..6 (so in every row of a
\* table of fewer than 7 rows), and in every row from the 7th on it is present
\* and is the sum of that row and the 6 rows before it divided by 7; the rows
\* shown for the selected period carry the averages of the table unchanged.
C11_SevenRowAverage ==
    view.outcome = "ok" =>
        /\ Len(view.hist) < 7 =>
              \A c \in DmaCols : \A i \in 1..Len(view.hist) : view.hist[i].dma[c].nan
        /\ \A c \in DmaCols : \A i \in 1..Len(view.hist) :
              /\ view.hist[i].dma[c].nan <=> i < 7
              /\ i >= 7 =>
                    /\ view.hist[i].dma[c].count = 7
                    /\ view.hist[i].dma[c].sum = SumOfLast(view.hist, c, i, 7)
        /\ \A j \in 1..Len(view.view) :
              view.view[j].dma = view.hist[Len(view.hist) - Len(view.view) + j].dma

\* C11 witness: a table of 8 rows whose 6th row has no average, whose 7th row
\* averages rows 1..7 and whose 8th row averages rows 2..8, the two sums being
\* different because row 1 and row 8 differ.
C11_Witness ==
    /\ view.outcome = "ok"
    /\ Len(view.hist) = 8
    /\ view.hist[6].dma["total_staked"].nan
    /\ ~view.hist[7].dma["total_staked"].nan
    /\ view.hist[7].dma["total_staked"].sum = 15000000
    /\ ~view.hist[8].dma["total_staked"].nan
    /\ view.hist[8].dma["total_staked"].sum = 10000000
    /\ view.hist[8].dma["total_staked"].count = 7
    /\ view.hist[1].vals["total_staked"] = 5000000
    /\ view.hist[8].vals["total_staked"] = 0

\* C11 witness of the short table: 6 rows with stakes recorded, no average in any row
C11_WitnessShort ==
    /\ view.outcome = "ok"
    /\ Len(view.hist) = 6
    /\ \A i \in 1..6 : view.hist[i].vals["total_staked"] = 5000000
    /\ \A i \in 1..6 : view.hist[i].dma["total_staked"].nan

====
